---------------------------- MODULE Spec2Model ----------------------------
(***************************************************************************)
(* A model of src/LRUCache.cpp: the bounded LRU store (LRUCache), the node *)
(* wrapper (CacheNode) and the shard router (ShardManager).                *)
(*                                                                         *)
(* A std::list node is modelled as a cell: a record with the identity of   *)
(* the node (the address an iterator holds) and the pair it stores.  The   *)
(* index cacheMap maps a key to the identity of a cell, as the iterator    *)
(* stored in the unordered_map does.                                       *)
(***************************************************************************)
EXTENDS Integers, Sequences, FiniteSets, TLC

(***************************************************************************)
(* Bounds of the model.                                                    *)
(***************************************************************************)
NumKeys == 3
MaxCapacity == 2
NumThreads == 2
MaxCalls == 1

(***************************************************************************)
(* Program constants.                                                      *)
(***************************************************************************)
NUM_SHARDS == 2
REPLICAS_PER_SHARD == 2
CACHE_CAPACITY == 3

MISS == "[MISS]"
DB_FALLBACK == "[MISS:DB fallback required]"

Keys == 1..NumKeys
Threads == 1..NumThreads

\* A value is any string: the plain ones, and the string the store itself
\* returns for an absent key, which a caller is free to insert.
PlainValues == {"Yash"}
Values == PlainValues \cup {MISS}

\* The nodes main() creates: P<i> and R<i><r>.
PrimaryNode(i) == "P" \o ToString(i)
ReplicaNode(i, r) == "R" \o ToString(i) \o ToString(r)
Nodes ==
    {PrimaryNode(i) : i \in 0..(NUM_SHARDS - 1)}
        \cup {ReplicaNode(i, r) : i \in 0..(NUM_SHARDS - 1), r \in 0..(REPLICAS_PER_SHARD - 1)}

\* LRUCache: capacity, lruList, cacheMap (one of each per node).
\* ShardManager: primaries, replicas, primaryStatus; hasher is std::hash on
\* the keys.
\* What the last call was, how it ended, what it returned, which keys it
\* evicted and which nodes it dispatched to, in order: lastOp, outcome,
\* result, evicted, dispatched.
\* History of the store under test: recency, arrival.  History of the
\* router: the value of the last insert of each key, where a run records it
\* (latest).
\* LRUCache::cacheMutex, one per node: cacheMutex.
\* Threads: where each is in its call on a node (pc), the call it is in
\* (call), what its last call on a node returned (ret), and the call on the
\* ShardManager it is in, with the nodes that call has still to visit (route).
VARIABLES capacity, lruList, cacheMap, primaries, replicas, primaryStatus, hasher,
          lastOp, outcome, result, evicted, dispatched, recency, arrival, latest,
          cacheMutex, pc, call, ret, route

storeVars == <<capacity, lruList, cacheMap>>
routerVars == <<primaries, replicas, primaryStatus, hasher>>
historyVars == <<recency, arrival, latest>>
observedVars == <<lastOp, outcome, result, evicted, dispatched>>
threadVars == <<cacheMutex, pc, call, ret, route>>
vars == <<capacity, lruList, cacheMap, primaries, replicas, primaryStatus, hasher,
          lastOp, outcome, result, evicted, dispatched, recency, arrival, latest,
          cacheMutex, pc, call, ret, route>>

(***************************************************************************)
(* Sequence helpers.                                                       *)
(***************************************************************************)
Range(s) == {s[i] : i \in DOMAIN s}

Front(s) == SubSeq(s, 1, Len(s) - 1)

Remove(s, i) == SubSeq(s, 1, i - 1) \o SubSeq(s, i + 1, Len(s))

RECURSIVE SeqWithout(_, _)
SeqWithout(s, x) ==
    IF s = <<>> THEN <<>>
    ELSE IF Head(s) = x THEN SeqWithout(Tail(s), x)
    ELSE <<Head(s)>> \o SeqWithout(Tail(s), x)

(***************************************************************************)
(* std::list<pair<string,string>> and the iterators into it.               *)
(***************************************************************************)
Cells(l) == {l[i].cell : i \in DOMAIN l}

\* The keys of the pairs the list holds.
ListKeys(l) == {l[i].first : i \in DOMAIN l}

\* The position of the list node an iterator points to (0: the iterator
\* points to no node of the list).
CellIndex(l, c) ==
    IF \E i \in DOMAIN l : l[i].cell = c
    THEN CHOOSE i \in DOMAIN l : l[i].cell = c
    ELSE 0

\* lruList.splice(lruList.begin(), lruList, it): the node moves to the
\* front, the other nodes keep their order, no node is copied or freed.
Splice(l, c) ==
    LET i == CellIndex(l, c)
    IN  IF i = 0 THEN l ELSE <<l[i]>> \o Remove(l, i)

\* it->second
Second(l, c) ==
    LET i == CellIndex(l, c)
    IN  IF i = 0 THEN MISS ELSE l[i].second

\* it->second = value
SetSecond(l, c, value) ==
    [i \in DOMAIN l |-> IF l[i].cell = c THEN [l[i] EXCEPT !.second = value] ELSE l[i]]

\* The node push_front allocates: an address no live node of the list has.
\* Which free address the allocator returns does not matter to the program,
\* so one is fixed per key (states that differ only in the addresses are the
\* same state): the address numbered like the key when that one is free,
\* otherwise the first free one past those.
NewCell(l, key) ==
    IF key \notin Cells(l) THEN key
    ELSE CHOOSE c \in (NumKeys + 1)..(NumKeys + Len(l) + 1) : c \notin Cells(l)

PushFront(l, key, value) ==
    <<[cell |-> NewCell(l, key), first |-> key, second |-> value]>> \o l

\* cacheMap.erase(key)
MapErase(m, key) == [k \in (DOMAIN m) \ {key} |-> m[k]]

\* cacheMap[key] = it
MapSet(m, key, c) == [k \in (DOMAIN m) \cup {key} |-> IF k = key THEN c ELSE m[k]]

EmptyMap == [k \in {} |-> 0]

(***************************************************************************)
(* LRUCache::get, as a function of the store: the store after the call and *)
(* the string returned.                                                    *)
(***************************************************************************)
\* LRUCache::get without the splice: a hit that does not promote.
GetNoSplice(l, m, key) ==
    IF key \notin DOMAIN m
    THEN [lruList |-> l, cacheMap |-> m, ret |-> MISS]
    ELSE [lruList |-> l, cacheMap |-> m, ret |-> Second(l, m[key])]

LRUGet(l, m, key) ==
    IF key \notin DOMAIN m
    THEN [lruList |-> l, cacheMap |-> m, ret |-> MISS]
    ELSE LET l2 == Splice(l, m[key])
         IN  [lruList |-> l2, cacheMap |-> m, ret |-> Second(l2, m[key])]

(***************************************************************************)
(* LRUCache::put, as a function of the store: the store after the call and *)
(* the keys whose entries it removed.                                      *)
(***************************************************************************)
\* LRUCache::put evicting the head (pop_front) instead of the tail.
PutEvictsFront(cap, l, m, key, value) ==
    IF key \in DOMAIN m
    THEN [lruList |-> SetSecond(Splice(l, m[key]), m[key], value),
          cacheMap |-> m, removed |-> {}]
    ELSE LET full == Len(l) >= cap
             m1 == IF full THEN MapErase(m, l[1].first) ELSE m
             l1 == IF full THEN Tail(l) ELSE l
             l2 == PushFront(l1, key, value)
         IN  [lruList |-> l2,
              cacheMap |-> MapSet(m1, key, l2[1].cell),
              removed |-> IF full THEN {l[1].first} ELSE {}]

\* LRUCache::put that promotes a present key without storing the new value.
PutNoUpdate(cap, l, m, key, value) ==
    IF key \in DOMAIN m
    THEN [lruList |-> Splice(l, m[key]), cacheMap |-> m, removed |-> {}]
    ELSE LET full == Len(l) >= cap
             m1 == IF full THEN MapErase(m, l[Len(l)].first) ELSE m
             l1 == IF full THEN Front(l) ELSE l
             l2 == PushFront(l1, key, value)
         IN  [lruList |-> l2,
              cacheMap |-> MapSet(m1, key, l2[1].cell),
              removed |-> IF full THEN {l[Len(l)].first} ELSE {}]

\* LRUCache::put without cacheMap.erase(last.first): the index keeps the
\* evicted key.
PutNoErase(cap, l, m, key, value) ==
    IF key \in DOMAIN m
    THEN [lruList |-> SetSecond(Splice(l, m[key]), m[key], value),
          cacheMap |-> m, removed |-> {}]
    ELSE LET full == Len(l) >= cap
             l1 == IF full THEN Front(l) ELSE l
             l2 == PushFront(l1, key, value)
         IN  [lruList |-> l2,
              cacheMap |-> MapSet(m, key, l2[1].cell),
              removed |-> IF full THEN {l[Len(l)].first} ELSE {}]

\* LRUCache::put evicting one entry too early: size() + 1 >= capacity.
PutEvictsEarly(cap, l, m, key, value) ==
    IF key \in DOMAIN m
    THEN [lruList |-> SetSecond(Splice(l, m[key]), m[key], value),
          cacheMap |-> m, removed |-> {}]
    ELSE LET full == l # <<>> /\ Len(l) + 1 >= cap
             m1 == IF full THEN MapErase(m, l[Len(l)].first) ELSE m
             l1 == IF full THEN Front(l) ELSE l
             l2 == PushFront(l1, key, value)
         IN  [lruList |-> l2,
              cacheMap |-> MapSet(m1, key, l2[1].cell),
              removed |-> IF full THEN {l[Len(l)].first} ELSE {}]

LRUPut(cap, l, m, key, value) ==
    IF key \in DOMAIN m
    THEN LET l1 == Splice(l, m[key])
         IN  [lruList |-> SetSecond(l1, m[key], value), cacheMap |-> m, removed |-> {}]
    ELSE LET full == Len(l) >= cap
             \* auto last = lruList.back(); cacheMap.erase(last.first); pop_back()
             m1 == IF full THEN MapErase(m, l[Len(l)].first) ELSE m
             l1 == IF full THEN Front(l) ELSE l
             l2 == PushFront(l1, key, value)
         IN  [lruList |-> l2,
              cacheMap |-> MapSet(m1, key, l2[1].cell),
              removed |-> IF full THEN {l[Len(l)].first} ELSE {}]

(***************************************************************************)
(* ShardManager.  A vector is a sequence; the element at C++ index i is    *)
(* element i + 1 of the sequence.                                          *)
(***************************************************************************)
At(v, i) == v[i + 1]

EmptyRouter == [primaries |-> <<>>, replicas |-> <<>>, primaryStatus |-> <<>>]

\* registerPrimary recording the new primary as down.
RegisterPrimaryDown(r, node) ==
    [r EXCEPT !.primaries = Append(r.primaries, node),
              !.primaryStatus = Append(r.primaryStatus, FALSE)]

\* ShardManager::registerPrimary
RegisterPrimary(r, node) ==
    [r EXCEPT !.primaries = Append(r.primaries, node),
              !.primaryStatus = Append(r.primaryStatus, TRUE)]

\* vector::resize(n) of the replica lists: new elements are empty lists.
Resize(v, n) == [i \in 1..n |-> IF i <= Len(v) THEN v[i] ELSE <<>>]

\* ShardManager::registerReplicas
RegisterReplicas(r, index, replicaList) ==
    LET v == IF index >= Len(r.replicas) THEN Resize(r.replicas, index + 1) ELSE r.replicas
    IN  [r EXCEPT !.replicas = [v EXCEPT ![index + 1] = replicaList]]

\* The registration loop of main(), run for the first n shards.
RECURSIVE MainSetup(_)
MainSetup(n) ==
    IF n = 0 THEN EmptyRouter
    ELSE LET i == n - 1
             replicaList == [r \in 1..REPLICAS_PER_SHARD |-> ReplicaNode(i, r - 1)]
         IN  RegisterReplicas(RegisterPrimary(MainSetup(i), PrimaryNode(i)), i, replicaList)

\* ShardManager::getShardIndex, for a router with at least one primary.
GetShardIndex(key) == hasher[key] % Len(primaries)

\* insert writing to the replicas only when the primary is down.
InsertTargetsReplicasAsFallback(idx) ==
    IF At(primaryStatus, idx) THEN <<At(primaries, idx)>> ELSE At(replicas, idx)

\* insert writing to the primary without looking at primaryStatus.
InsertTargetsIgnoringStatus(idx) == <<At(primaries, idx)>> \o At(replicas, idx)

\* The nodes insert writes to, in the order it writes them.
InsertTargets(idx) ==
    (IF At(primaryStatus, idx) THEN <<At(primaries, idx)>> ELSE <<>>) \o At(replicas, idx)

\* retrieve querying the primary without looking at primaryStatus.
RetrieveTargetsIgnoringStatus(idx) == <<At(primaries, idx)>> \o At(replicas, idx)

\* retrieve without the fallback to the replicas.
RetrieveTargetsNoFallback(idx) ==
    IF At(primaryStatus, idx) THEN <<At(primaries, idx)>> ELSE <<>>

\* The nodes retrieve may query, in the order it would query them.
RetrieveTargets(idx) ==
    (IF At(primaryStatus, idx) THEN <<At(primaries, idx)>> ELSE <<>>) \o At(replicas, idx)

\* CacheNode::insert on each target in turn.
RECURSIVE InsertAll(_, _, _, _, _)
InsertAll(ll, cm, targets, key, value) ==
    IF targets = <<>> THEN [lruList |-> ll, cacheMap |-> cm]
    ELSE LET n == Head(targets)
             p == LRUPut(capacity[n], ll[n], cm[n], key, value)
         IN  InsertAll([ll EXCEPT ![n] = p.lruList], [cm EXCEPT ![n] = p.cacheMap],
                       Tail(targets), key, value)

\* CacheNode::retrieve on each target in turn, until one returns something
\* other than "[MISS]".
RECURSIVE RetrieveFirst(_, _, _, _, _)
RetrieveFirst(ll, cm, targets, key, asked) ==
    IF targets = <<>>
    THEN [lruList |-> ll, cacheMap |-> cm, ret |-> DB_FALLBACK, asked |-> asked]
    ELSE LET n == Head(targets)
             g == LRUGet(ll[n], cm[n], key)
             ll2 == [ll EXCEPT ![n] = g.lruList]
             cm2 == [cm EXCEPT ![n] = g.cacheMap]
         IN  IF g.ret # MISS
             THEN [lruList |-> ll2, cacheMap |-> cm2, ret |-> g.ret, asked |-> Append(asked, n)]
             ELSE RetrieveFirst(ll2, cm2, Tail(targets), key, Append(asked, n))

\* Whether getShardIndex and the vector accesses of insert and retrieve are
\* defined for a key: there is a primary to divide by, and replicas[idx]
\* exists.
Defined(key) == Len(primaries) > 0 /\ GetShardIndex(key) < Len(replicas)

\* ShardManager::insert, where it is defined: what it does to the program
\* and to what is observed of the call.
InsertCall(key, value) ==
    LET idx == GetShardIndex(key)
        targets == InsertTargets(idx)
        w == InsertAll(lruList, cacheMap, targets, key, value)
    IN  /\ outcome # "killed"
        /\ Defined(key)
        /\ lruList' = w.lruList
        /\ cacheMap' = w.cacheMap
        /\ dispatched' = targets
        /\ result' = ""
        /\ outcome' = "returned"
        /\ evicted' = {}
        /\ lastOp' = [op |-> "insert", node |-> "", key |-> key, value |-> value, idx |-> idx]
        /\ UNCHANGED <<capacity, routerVars, threadVars>>

Insert(key, value) ==
    /\ InsertCall(key, value)
    /\ UNCHANGED historyVars

\* insert in a run that records the value last inserted for each key.
InsertRecorded(key, value) ==
    /\ InsertCall(key, value)
    /\ latest' = [k \in (DOMAIN latest) \cup {key} |-> IF k = key THEN value ELSE latest[k]]
    /\ UNCHANGED <<recency, arrival>>

\* ShardManager::retrieve, where it is defined
Retrieve(key) ==
    LET idx == GetShardIndex(key)
        g == RetrieveFirst(lruList, cacheMap, RetrieveTargets(idx), key, <<>>)
    IN  /\ outcome # "killed"
        /\ Defined(key)
        /\ outcome' = "returned"
        /\ lruList' = g.lruList
        /\ cacheMap' = g.cacheMap
        /\ dispatched' = g.asked
        /\ result' = g.ret
        /\ evicted' = {}
        /\ lastOp' = [op |-> "retrieve", node |-> "", key |-> key, value |-> "", idx |-> idx]
        /\ UNCHANGED <<capacity, routerVars, historyVars, threadVars>>

\* disablePrimary without the range check, the index reduced modulo the
\* number of shards as getShardIndex reduces a hash.
DisablePrimaryModulo(idx) ==
    /\ outcome # "killed"
    /\ outcome' = "returned"
    /\ primaryStatus' = IF Len(primaryStatus) > 0
                        THEN [primaryStatus EXCEPT ![(idx % Len(primaryStatus)) + 1] = FALSE]
                        ELSE primaryStatus
    /\ dispatched' = <<>>
    /\ result' = ""
    /\ evicted' = {}
    /\ lastOp' = [op |-> "disablePrimary", node |-> "", key |-> 0, value |-> "", idx |-> idx]
    /\ UNCHANGED <<storeVars, primaries, replicas, hasher, historyVars, threadVars>>

\* ShardManager::disablePrimary
DisablePrimary(idx) ==
    /\ outcome # "killed"
    /\ outcome' = "returned"
    /\ primaryStatus' = IF idx < Len(primaryStatus)
                        THEN [primaryStatus EXCEPT ![idx + 1] = FALSE]
                        ELSE primaryStatus
    /\ dispatched' = <<>>
    /\ result' = ""
    /\ evicted' = {}
    /\ lastOp' = [op |-> "disablePrimary", node |-> "", key |-> 0, value |-> "", idx |-> idx]
    /\ UNCHANGED <<storeVars, primaries, replicas, hasher, historyVars, threadVars>>

(***************************************************************************)
(* insert and retrieve where the C++ is undefined: with no primary         *)
(* registered, hasher(key) % primaries.size() divides by zero; with no     *)
(* replica list registered for the shard, replicas[idx] reads past the end *)
(* of the vector (after insert has written to an alive primary, after      *)
(* retrieve has missed in it).  The source has no check on either path, so *)
(* the call never ends in an error of the program's own.  What a build     *)
(* does there is a choice: the process is killed by the trap or the wild   *)
(* read, or the garbage read behaves like an empty replica list and the    *)
(* call returns.                                                           *)
(***************************************************************************)
UndefinedOutcomes == {"killed", "returned"}

\* The nodes insert and retrieve have called when they reach the undefined
\* access: none after a division by zero, the alive primary before
\* replicas[idx].
TargetsBeforeUndefined(key) ==
    IF Len(primaries) = 0 THEN <<>>
    ELSE IF At(primaryStatus, GetShardIndex(key))
         THEN <<At(primaries, GetShardIndex(key))>>
         ELSE <<>>

InsertUndefined(key, value, how) ==
    LET targets == TargetsBeforeUndefined(key)
        w == InsertAll(lruList, cacheMap, targets, key, value)
    IN  /\ outcome # "killed"
        /\ ~Defined(key)
        /\ lruList' = w.lruList
        /\ cacheMap' = w.cacheMap
        /\ dispatched' = targets
        /\ result' = ""
        /\ outcome' = how
        /\ evicted' = {}
        /\ lastOp' = [op |-> "insert", node |-> "", key |-> key, value |-> value, idx |-> 0]
        /\ UNCHANGED <<capacity, routerVars, historyVars, threadVars>>

RetrieveUndefined(key, how) ==
    LET targets == TargetsBeforeUndefined(key)
        g == RetrieveFirst(lruList, cacheMap, targets, key, <<>>)
    IN  /\ outcome # "killed"
        /\ ~Defined(key)
        /\ lruList' = g.lruList
        /\ cacheMap' = g.cacheMap
        /\ dispatched' = g.asked
        \* a hit in the primary returns before replicas[idx] is read
        /\ outcome' = IF g.ret # DB_FALLBACK THEN "returned" ELSE how
        /\ result' = IF g.ret # DB_FALLBACK \/ how = "returned" THEN g.ret ELSE ""
        /\ evicted' = {}
        /\ lastOp' = [op |-> "retrieve", node |-> "", key |-> key, value |-> "", idx |-> 0]
        /\ UNCHANGED <<capacity, routerVars, historyVars, threadVars>>

\* ShardManager::registerPrimary, called as main() calls it: the next
\* primary registered is the next P<i>.
RegisterPrimaryCall ==
    LET r == RegisterPrimary([primaries |-> primaries, replicas |-> replicas,
                              primaryStatus |-> primaryStatus],
                             PrimaryNode(Len(primaries)))
    IN  /\ outcome # "killed"
        /\ Len(primaries) < NUM_SHARDS
        /\ primaries' = r.primaries
        /\ primaryStatus' = r.primaryStatus
        /\ replicas' = r.replicas
        /\ outcome' = "returned"
        /\ result' = ""
        /\ evicted' = {}
        /\ dispatched' = <<>>
        /\ lastOp' = [op |-> "registerPrimary", node |-> PrimaryNode(Len(primaries)),
                      key |-> 0, value |-> "", idx |-> Len(primaries)]
        /\ UNCHANGED <<storeVars, hasher, historyVars, threadVars>>

\* ShardManager::registerReplicas, called as main() calls it: shard i gets
\* the list R<i>0, R<i>1, ...
RegisterReplicasCall(index) ==
    LET replicaList == [r \in 1..REPLICAS_PER_SHARD |-> ReplicaNode(index, r - 1)]
        r == RegisterReplicas([primaries |-> primaries, replicas |-> replicas,
                               primaryStatus |-> primaryStatus], index, replicaList)
    IN  /\ outcome # "killed"
        /\ primaries' = r.primaries
        /\ primaryStatus' = r.primaryStatus
        /\ replicas' = r.replicas
        /\ outcome' = "returned"
        /\ result' = ""
        /\ evicted' = {}
        /\ dispatched' = <<>>
        /\ lastOp' = [op |-> "registerReplicas", node |-> "", key |-> 0, value |-> "",
                      idx |-> index]
        /\ UNCHANGED <<storeVars, hasher, historyVars, threadVars>>

(***************************************************************************)
(* The store specification: one LRUCache, created with some capacity > 0,  *)
(* and any sequence of get and put calls on it.                            *)
(***************************************************************************)
StoreUnderTest == PrimaryNode(0)

\* std::shared_mutex: the thread that holds it exclusively (0: none) and
\* the threads that hold it shared.
Unlocked == [writer |-> 0, readers |-> {}]

NoCall == [op |-> "none", node |-> "", key |-> 0, value |-> "", moved |-> FALSE]

NoOp == [op |-> "none", node |-> "", key |-> 0, value |-> "", idx |-> 0]

\* No call on the ShardManager in progress.  calls counts the calls the
\* thread has made so far.
NoRoute == [op |-> "none", key |-> 0, value |-> "", rest |-> <<>>, asked |-> 0, calls |-> 0]

\* The state main() builds before its first call: every node with the same
\* capacity and an empty store, the topology registered, every primary up.
\* Every node as constructed.  Of a hash only its remainder modulo the
\* number of shards is used, so hasher ranges over the remainders: every
\* assignment of the keys to the shards is one std::hash may produce.
InitNodes ==
    /\ \E c \in 1..MaxCapacity : capacity = [n \in Nodes |-> c]
    /\ lruList = [n \in Nodes |-> <<>>]
    /\ cacheMap = [n \in Nodes |-> EmptyMap]
    /\ hasher \in [Keys -> 0..(NUM_SHARDS - 1)]
    /\ lastOp = NoOp
    /\ outcome = ""
    /\ result = ""
    /\ evicted = {}
    /\ dispatched = <<>>
    /\ recency = <<>>
    /\ arrival = <<>>
    /\ latest = EmptyMap
    /\ cacheMutex = [n \in Nodes |-> Unlocked]
    /\ pc = [t \in Threads |-> "idle"]
    /\ call = [t \in Threads |-> NoCall]
    /\ ret = [t \in Threads |-> ""]
    /\ route = [t \in Threads |-> NoRoute]

Init ==
    /\ InitNodes
    /\ primaries = MainSetup(NUM_SHARDS).primaries
    /\ replicas = MainSetup(NUM_SHARDS).replicas
    /\ primaryStatus = MainSetup(NUM_SHARDS).primaryStatus

InitStore ==
    /\ Init
    /\ \A k \in Keys : hasher[k] = 0

\* The keys in the order of their last touch (a get that hit, or a put),
\* the most recent first; a key never touched is not in it.
Touch(r, key) == <<key>> \o SeqWithout(r, key)

\* The keys in the order in which they became resident, the longest
\* resident first: the keys resident before the call, then the key the call
\* added.  The key the last put removed stays in it until the next call.
Resident(a, l) == SelectSeq(a, LAMBDA k : k \in ListKeys(l))

Arrive(a, l, key) ==
    IF key \in ListKeys(l) THEN Resident(a, l) ELSE Resident(a, l) \o <<key>>

StoreGet(n, key) ==
    LET g == LRUGet(lruList[n], cacheMap[n], key)
    IN  /\ lruList' = [lruList EXCEPT ![n] = g.lruList]
        /\ cacheMap' = [cacheMap EXCEPT ![n] = g.cacheMap]
        /\ result' = g.ret
        /\ outcome' = "returned"
        /\ evicted' = {}
        /\ lastOp' = [op |-> "get", node |-> n, key |-> key, value |-> "", idx |-> 0]
        /\ dispatched' = <<n>>
        /\ recency' = IF key \in DOMAIN cacheMap[n] THEN Touch(recency, key) ELSE recency
        /\ arrival' = Resident(arrival, lruList[n])
        /\ UNCHANGED <<capacity, routerVars, latest, threadVars>>

StorePut(n, key, value) ==
    LET p == LRUPut(capacity[n], lruList[n], cacheMap[n], key, value)
    IN  /\ lruList' = [lruList EXCEPT ![n] = p.lruList]
        /\ cacheMap' = [cacheMap EXCEPT ![n] = p.cacheMap]
        /\ result' = ""
        /\ outcome' = "returned"
        /\ evicted' = p.removed
        /\ lastOp' = [op |-> "put", node |-> n, key |-> key, value |-> value, idx |-> 0]
        /\ dispatched' = <<n>>
        /\ recency' = Touch(recency, key)
        /\ arrival' = Arrive(arrival, lruList[n], key)
        /\ UNCHANGED <<capacity, routerVars, latest, threadVars>>

NextStore ==
    \/ \E key \in Keys : StoreGet(StoreUnderTest, key)
    \/ \E key \in Keys, value \in Values : StorePut(StoreUnderTest, key, value)

SpecStore == InitStore /\ [][NextStore]_vars

(***************************************************************************)
(* The router specification: the topology of main() and any sequence of    *)
(* insert, retrieve and disablePrimary calls, one at a time.               *)
(***************************************************************************)
Next ==
    \/ \E key \in Keys, value \in Values : Insert(key, value)
    \/ \E key \in Keys : Retrieve(key)
    \/ \E idx \in 0..NUM_SHARDS : DisablePrimary(idx)

Spec == Init /\ [][Next]_vars

(***************************************************************************)
(* The setup specification: a ShardManager as constructed, with nothing    *)
(* registered, and registerPrimary, registerReplicas, insert, retrieve and *)
(* disablePrimary called in any order, on nodes of capacity 1 and with      *)
(* plain values.                                                           *)
(***************************************************************************)
InitSetup ==
    /\ InitNodes
    /\ capacity = [n \in Nodes |-> 1]
    /\ primaries = EmptyRouter.primaries
    /\ replicas = EmptyRouter.replicas
    /\ primaryStatus = EmptyRouter.primaryStatus

NextSetup ==
    \/ RegisterPrimaryCall
    \/ \E index \in 0..(NUM_SHARDS - 1) : RegisterReplicasCall(index)
    \/ \E key \in Keys, value \in PlainValues : Insert(key, value)
    \/ \E key \in Keys, value \in PlainValues, how \in UndefinedOutcomes :
            InsertUndefined(key, value, how)
    \/ \E key \in Keys : Retrieve(key)
    \/ \E key \in Keys, how \in UndefinedOutcomes : RetrieveUndefined(key, how)
    \/ \E idx \in 0..NUM_SHARDS : DisablePrimary(idx)

SpecSetup == InitSetup /\ [][NextSetup]_vars

(***************************************************************************)
(* C1: in every state reachable by get and put calls on a store created    *)
(* with capacity c > 0, the store holds at most c entries, no key occurs   *)
(* twice in the recency list, and the index has exactly the keys of the    *)
(* list, each mapped to the list node that holds that key.                 *)
(***************************************************************************)
StoreConsistent(cap, l, m) ==
    /\ Len(l) <= cap
    /\ \A i, j \in DOMAIN l : i # j => l[i].first # l[j].first /\ l[i].cell # l[j].cell
    /\ DOMAIN m = ListKeys(l)
    /\ \A k \in DOMAIN m : \E i \in DOMAIN l : l[i].cell = m[k] /\ l[i].first = k

C1_StoreInvariant ==
    StoreConsistent(capacity[StoreUnderTest], lruList[StoreUnderTest], cacheMap[StoreUnderTest])

\* An eviction has happened in a full store that still holds entries.
C1_Witness ==
    /\ lastOp.op = "put"
    /\ evicted # {}
    /\ Len(lruList[StoreUnderTest]) = capacity[StoreUnderTest]
    /\ Len(lruList[StoreUnderTest]) >= 2

(***************************************************************************)
(* C2: whenever put inserts an absent key into a full store, the single    *)
(* entry removed is the resident key whose most recent touch (a get that   *)
(* hit it, or a put of it) is the oldest among all resident keys; a get of *)
(* the removed key then misses.                                            *)
(***************************************************************************)
\* The position of a key in the order of last touches (0: never touched).
TouchIndex(r, key) ==
    IF \E i \in DOMAIN r : r[i] = key THEN CHOOSE i \in DOMAIN r : r[i] = key ELSE 0

\* The resident keys whose last touch is the oldest.
LeastRecentlyTouched(r, resident) ==
    {k \in resident : \A k2 \in resident : TouchIndex(r, k2) <= TouchIndex(r, k)}

C2_EvictsLeastRecentlyTouched ==
    [][
        LET n == StoreUnderTest
            key == lastOp'.key
        IN  (/\ lastOp'.op = "put"
             /\ key \notin ListKeys(lruList[n])
             /\ Len(lruList[n]) >= capacity[n])
            =>
            /\ evicted' = LeastRecentlyTouched(recency, ListKeys(lruList[n]))
            /\ Cardinality(evicted') = 1
            /\ ListKeys(lruList'[n]) = (ListKeys(lruList[n]) \ evicted') \cup {key}
            /\ \A e \in evicted' : LRUGet(lruList'[n], cacheMap'[n], e).ret = MISS
    ]_vars

\* An eviction that spared the longest resident key: that key had been
\* touched again, so the key that became resident after it was evicted.
C2_Witness ==
    /\ lastOp.op = "put"
    /\ evicted # {}
    /\ arrival[1] \notin evicted
    /\ arrival[1] \in ListKeys(lruList[StoreUnderTest])
    /\ arrival[2] \in evicted

(***************************************************************************)
(* C3: get(key) of an absent key returns the node-local MISS string and    *)
(* leaves the recency list and the index unchanged; get(key) of a present  *)
(* key returns the value stored for it and moves its entry to the head,    *)
(* keeping the relative order of the other entries, the set of keys and    *)
(* all stored values.                                                      *)
(***************************************************************************)
\* The value the list stores for a key it holds.
StoredValue(l, key) == (CHOOSE e \in Range(l) : e.first = key).second

\* The list without the entry of a key.
RECURSIVE WithoutKey(_, _)
WithoutKey(l, key) ==
    IF l = <<>> THEN <<>>
    ELSE IF Head(l).first = key THEN WithoutKey(Tail(l), key)
    ELSE <<Head(l)>> \o WithoutKey(Tail(l), key)

C3_GetContract ==
    [][
        LET n == lastOp'.node
            key == lastOp'.key
        IN  lastOp'.op = "get" =>
            IF key \notin ListKeys(lruList[n])
            THEN /\ result' = MISS
                 /\ lruList'[n] = lruList[n]
                 /\ cacheMap'[n] = cacheMap[n]
            ELSE /\ result' = StoredValue(lruList[n], key)
                 /\ lruList'[n][1].first = key
                 /\ lruList'[n][1].second = StoredValue(lruList[n], key)
                 /\ WithoutKey(lruList'[n], key) = WithoutKey(lruList[n], key)
                 /\ Len(lruList'[n]) = Len(lruList[n])
                 /\ cacheMap'[n] = cacheMap[n]
    ]_vars

\* A get hit an entry that was not at the head and moved it there.
C3_Witness ==
    /\ lastOp.op = "get"
    /\ result \in PlainValues
    /\ Len(lruList[lastOp.node]) >= 2
    /\ lruList[lastOp.node][1].first = lastOp.key
    /\ recency[1] = lastOp.key

(***************************************************************************)
(* C4: put(key, value) of a present key sets its value, moves the entry to *)
(* the head and evicts nothing, even in a full store; put of an absent key *)
(* into a store below capacity adds the entry at the head and evicts       *)
(* nothing; put of an absent key into a store at capacity removes exactly  *)
(* the tail entry and then adds the new entry at the head.  In all three   *)
(* cases a get(key) issued right after returns the new value.              *)
(***************************************************************************)
Pairs(l) == [i \in DOMAIN l |-> <<l[i].first, l[i].second>>]

C4_PutContract ==
    [][
        LET n == lastOp'.node
            key == lastOp'.key
            value == lastOp'.value
            old == Pairs(lruList[n])
            new == Pairs(lruList'[n])
        IN  lastOp'.op = "put" =>
            /\ IF key \in ListKeys(lruList[n])
               THEN /\ new = <<<<key, value>>>> \o Pairs(WithoutKey(lruList[n], key))
                    /\ evicted' = {}
               ELSE IF Len(lruList[n]) < capacity[n]
               THEN /\ new = <<<<key, value>>>> \o old
                    /\ evicted' = {}
               ELSE /\ new = <<<<key, value>>>> \o Front(old)
                    /\ evicted' = {old[Len(old)][1]}
            /\ LRUGet(lruList'[n], cacheMap'[n], key).ret = value
    ]_vars

\* A put overwrote the longest resident entry of a full store: the entry is
\* at the head with the new value and nothing was evicted.
C4_Witness ==
    /\ lastOp.op = "put"
    /\ evicted = {}
    /\ Len(lruList[lastOp.node]) = capacity[lastOp.node]
    /\ Len(arrival) >= 2
    /\ arrival[1] = lastOp.key
    /\ lruList[lastOp.node][1].first = lastOp.key
    /\ lruList[lastOp.node][1].second = lastOp.value
    /\ lastOp.value \in PlainValues

(***************************************************************************)
(* C6: insert(k, v) writes (k, v) to every replica of k's shard whether or *)
(* not the shard's primary is alive, and to the primary exactly when it is *)
(* alive.  Right after insert(k, v), a direct retrieve of k on each        *)
(* replica of k's shard returns v, also when disablePrimary is then called *)
(* on that shard.                                                          *)
(***************************************************************************)
HeadIs(l, key, value) == l # <<>> /\ l[1].first = key /\ l[1].second = value

C6_InsertFanOut ==
    [][
        /\ lastOp'.op = "insert" =>
            LET idx == hasher[lastOp'.key] % Len(primaries)
                primary == At(primaries, idx)
            IN  /\ \A r \in Range(At(replicas, idx)) :
                    /\ HeadIs(lruList'[r], lastOp'.key, lastOp'.value)
                    /\ LRUGet(lruList'[r], cacheMap'[r], lastOp'.key).ret = lastOp'.value
                /\ IF At(primaryStatus, idx)
                   THEN HeadIs(lruList'[primary], lastOp'.key, lastOp'.value)
                   ELSE lruList'[primary] = lruList[primary]
                            /\ cacheMap'[primary] = cacheMap[primary]
        /\ (lastOp.op = "insert" /\ lastOp'.op = "disablePrimary"
                /\ lastOp'.idx = hasher[lastOp.key] % Len(primaries)) =>
            \A r \in Range(At(replicas, lastOp'.idx)) :
                LRUGet(lruList'[r], cacheMap'[r], lastOp.key).ret = lastOp.value
    ]_vars

\* An insert under a disabled primary: both replicas hold the pair, the
\* primary does not hold the key.
C6_Witness ==
    /\ lastOp.op = "insert"
    /\ lastOp.value \in PlainValues
    /\ ~At(primaryStatus, lastOp.idx)
    /\ lastOp.key \notin ListKeys(lruList[At(primaries, lastOp.idx)])
    /\ Len(At(replicas, lastOp.idx)) = REPLICAS_PER_SHARD
    /\ \A r \in Range(At(replicas, lastOp.idx)) :
            HeadIs(lruList[r], lastOp.key, lastOp.value)

(***************************************************************************)
(* C7: retrieve(k) asks the nodes of k's shard in a fixed order: the       *)
(* primary first if and only if it is alive, then the replicas in their    *)
(* registered order.  It stops at the first node that answers something    *)
(* other than the node-local MISS string and returns that answer; no later *)
(* node is asked.                                                          *)
(***************************************************************************)
IsPrefix(s, t) == Len(s) <= Len(t) /\ SubSeq(t, 1, Len(s)) = s

C7_RetrieveOrder ==
    [][
        lastOp'.op = "retrieve" =>
            LET key == lastOp'.key
                idx == hasher[key] % Len(primaries)
                order == IF At(primaryStatus, idx)
                         THEN <<At(primaries, idx)>> \o At(replicas, idx)
                         ELSE At(replicas, idx)
                answer(n) == LRUGet(lruList[n], cacheMap[n], key).ret
                asked == dispatched'
            IN  /\ IsPrefix(asked, order)
                /\ \A i \in 1..(Len(asked) - 1) : answer(asked[i]) = MISS
                /\ IF \E i \in DOMAIN order : answer(order[i]) # MISS
                   THEN /\ asked # <<>>
                        /\ answer(asked[Len(asked)]) # MISS
                        /\ result' = answer(asked[Len(asked)])
                   ELSE /\ asked = order
                        /\ result' = DB_FALLBACK
                /\ \A n \in Nodes \ Range(asked) :
                        lruList'[n] = lruList[n] /\ cacheMap'[n] = cacheMap[n]
    ]_vars

\* A retrieve that the alive primary and the first replica both missed and
\* the second replica served.
C7_Witness ==
    /\ lastOp.op = "retrieve"
    /\ Len(dispatched) = 1 + REPLICAS_PER_SHARD
    /\ At(primaryStatus, lastOp.idx)
    /\ lastOp.key \notin ListKeys(lruList[dispatched[1]])
    /\ lastOp.key \notin ListKeys(lruList[dispatched[2]])
    /\ result \in PlainValues

(***************************************************************************)
(* C8: the shard-wide string and the node-local MISS string are two        *)
(* distinct values, and retrieve never returns the node-local one:         *)
(* retrieve(k) returns the shard-wide string when neither the alive        *)
(* primary nor any replica of k's shard holds k, and otherwise returns a   *)
(* value stored for k.                                                     *)
(***************************************************************************)
\* The nodes of a shard that a retrieve may read: the alive primary and the
\* replicas.
ReadableNodes(idx) ==
    (IF At(primaryStatus, idx) THEN {At(primaries, idx)} ELSE {}) \cup Range(At(replicas, idx))

Holders(ns, key) == {n \in ns : key \in ListKeys(lruList[n])}

C8_RetrieveSentinels ==
    /\ DB_FALLBACK # MISS
    /\ lastOp.op = "retrieve" =>
        /\ result # MISS
        /\ IF Holders(ReadableNodes(lastOp.idx), lastOp.key) = {}
           THEN result = DB_FALLBACK
           ELSE \E n \in Holders(ReadableNodes(lastOp.idx), lastOp.key) :
                    result = StoredValue(lruList[n], lastOp.key)

(***************************************************************************)
(* C9: with the primary of a shard disabled, retrieve(k) of a key that at  *)
(* least one replica of the shard holds returns the value stored for k,    *)
(* not a miss string, and retrieve(k) of a key that neither the primary    *)
(* nor any replica holds returns the shard-wide fallback string.           *)
(***************************************************************************)
C9_Failover ==
    (lastOp.op = "retrieve" /\ ~At(primaryStatus, lastOp.idx)) =>
        LET reps == Range(At(replicas, lastOp.idx))
            all == reps \cup {At(primaries, lastOp.idx)}
        IN  /\ Holders(reps, lastOp.key) # {} =>
                /\ result \notin {MISS, DB_FALLBACK}
                /\ \E n \in Holders(reps, lastOp.key) :
                        result = StoredValue(lruList[n], lastOp.key)
            /\ Holders(all, lastOp.key) = {} => result = DB_FALLBACK

(***************************************************************************)
(* Threads calling get and put on one store.  A call takes the store's     *)
(* shared_mutex as the source does: get a shared_lock, put a unique_lock.  *)
(* Each line of get is a step of its own, since other holders of the       *)
(* shared lock run between them.                                           *)
(***************************************************************************)
\* shared_lock<shared_mutex> readLock(cacheMutex) can be taken.
CanLockShared(n) == cacheMutex[n].writer = 0

\* One mutex for all the stores: a unique_lock can be taken when no thread
\* holds the lock of any node.
CanLockUniqueGlobal(n) ==
    \A m \in Nodes : cacheMutex[m].writer = 0 /\ cacheMutex[m].readers = {}

\* unique_lock<shared_mutex> writeLock(cacheMutex) can be taken.
CanLockUnique(n) == cacheMutex[n].writer = 0 /\ cacheMutex[n].readers = {}

Holds(t, n) == cacheMutex[n].writer = t \/ t \in cacheMutex[n].readers

\* Whether the splice of a thread relinks a node: a splice of the node that
\* is already at the front does nothing.
Relinks(t) ==
    LET n == call[t].node
    IN  call[t].key \in DOMAIN cacheMap[n]
            /\ CellIndex(lruList[n], cacheMap[n][call[t].key]) > 1

\* A splice races with the splice of another holder of the shared lock: both
\* write the links of the same list and nothing orders them.
Races(t) ==
    /\ Relinks(t)
    /\ \E u \in Threads \ {t} :
        /\ call[u].node = call[t].node
        /\ Holds(u, call[u].node)
        /\ \/ pc[u] = "get_splice" /\ Relinks(u)
           \/ pc[u] = "get_return" /\ call[u].moved

\* What a racing splice may leave of the list: the node moved, the move
\* lost, or the node unlinked and not linked back.
RaceOutcomes(l, c) == {Splice(l, c), l, Remove(l, CellIndex(l, c))}

CallGet(t, n, key) ==
    /\ pc[t] = "idle"
    /\ pc' = [pc EXCEPT ![t] = "get_lock"]
    /\ call' = [call EXCEPT ![t] = [op |-> "get", node |-> n, key |-> key, value |-> "",
                                    moved |-> FALSE]]
    /\ UNCHANGED <<storeVars, routerVars, observedVars, historyVars, route, cacheMutex, ret>>

\* line 45
GetLock(t) ==
    LET n == call[t].node
    IN  /\ pc[t] = "get_lock"
        /\ CanLockShared(n)
        /\ cacheMutex' = [cacheMutex EXCEPT ![n].readers = @ \cup {t}]
        /\ pc' = [pc EXCEPT ![t] = "get_find"]
        /\ UNCHANGED <<storeVars, routerVars, observedVars, historyVars, route, call, ret>>

\* line 46
GetFind(t) ==
    LET n == call[t].node
    IN  /\ pc[t] = "get_find"
        /\ IF call[t].key \notin DOMAIN cacheMap[n]
           THEN /\ ret' = [ret EXCEPT ![t] = MISS]
                /\ cacheMutex' = [cacheMutex EXCEPT ![n].readers = @ \ {t}]
                /\ pc' = [pc EXCEPT ![t] = "idle"]
                /\ call' = [call EXCEPT ![t] = NoCall]
           ELSE /\ pc' = [pc EXCEPT ![t] = "get_splice"]
                /\ UNCHANGED <<ret, cacheMutex, call>>
        /\ UNCHANGED <<storeVars, routerVars, observedVars, historyVars, route>>

\* line 47
GetSplice(t) ==
    LET n == call[t].node
        c == cacheMap[n][call[t].key]
    IN  /\ pc[t] = "get_splice"
        /\ \E l \in IF Races(t) THEN RaceOutcomes(lruList[n], c) ELSE {Splice(lruList[n], c)} :
                lruList' = [lruList EXCEPT ![n] = l]
        /\ call' = [call EXCEPT ![t].moved = Relinks(t)]
        /\ pc' = [pc EXCEPT ![t] = "get_return"]
        /\ UNCHANGED <<capacity, cacheMap, routerVars, observedVars, historyVars, route,
                       cacheMutex, ret>>

\* line 48, and the end of the scope of readLock
GetReturn(t) ==
    LET n == call[t].node
    IN  /\ pc[t] = "get_return"
        /\ ret' = [ret EXCEPT ![t] = Second(lruList[n], cacheMap[n][call[t].key])]
        /\ cacheMutex' = [cacheMutex EXCEPT ![n].readers = @ \ {t}]
        /\ pc' = [pc EXCEPT ![t] = "idle"]
        /\ call' = [call EXCEPT ![t] = NoCall]
        /\ UNCHANGED <<storeVars, routerVars, observedVars, historyVars, route>>

CallPut(t, n, key, value) ==
    /\ pc[t] = "idle"
    /\ pc' = [pc EXCEPT ![t] = "put_lock"]
    /\ call' = [call EXCEPT ![t] = [op |-> "put", node |-> n, key |-> key, value |-> value,
                                    moved |-> FALSE]]
    /\ UNCHANGED <<storeVars, routerVars, observedVars, historyVars, route, cacheMutex, ret>>

\* line 52
PutLock(t) ==
    LET n == call[t].node
    IN  /\ pc[t] = "put_lock"
        /\ CanLockUnique(n)
        /\ cacheMutex' = [cacheMutex EXCEPT ![n].writer = t]
        /\ pc' = [pc EXCEPT ![t] = "put_body"]
        /\ UNCHANGED <<storeVars, routerVars, observedVars, historyVars, route, call, ret>>

\* put returning with the lock still held.
PutBodyKeepsLock(t) ==
    LET n == call[t].node
        p == LRUPut(capacity[n], lruList[n], cacheMap[n], call[t].key, call[t].value)
    IN  /\ pc[t] = "put_body"
        /\ lruList' = [lruList EXCEPT ![n] = p.lruList]
        /\ cacheMap' = [cacheMap EXCEPT ![n] = p.cacheMap]
        /\ ret' = [ret EXCEPT ![t] = ""]
        /\ pc' = [pc EXCEPT ![t] = "idle"]
        /\ call' = [call EXCEPT ![t] = NoCall]
        /\ UNCHANGED <<capacity, routerVars, observedVars, historyVars, route, cacheMutex>>

\* lines 53 to 64, alone in the store, and the end of the scope of writeLock
PutBody(t) ==
    LET n == call[t].node
        p == LRUPut(capacity[n], lruList[n], cacheMap[n], call[t].key, call[t].value)
    IN  /\ pc[t] = "put_body"
        /\ lruList' = [lruList EXCEPT ![n] = p.lruList]
        /\ cacheMap' = [cacheMap EXCEPT ![n] = p.cacheMap]
        /\ cacheMutex' = [cacheMutex EXCEPT ![n].writer = 0]
        /\ ret' = [ret EXCEPT ![t] = ""]
        /\ pc' = [pc EXCEPT ![t] = "idle"]
        /\ call' = [call EXCEPT ![t] = NoCall]
        /\ UNCHANGED <<capacity, routerVars, observedVars, historyVars, route>>

NextConc ==
    \E t \in Threads :
        \/ \E key \in Keys : CallGet(t, StoreUnderTest, key)
        \/ GetLock(t)
        \/ GetFind(t)
        \/ GetSplice(t)
        \/ GetReturn(t)
        \/ \E key \in Keys, value \in Values : CallPut(t, StoreUnderTest, key, value)
        \/ PutLock(t)
        \/ PutBody(t)

SpecConc == InitStore /\ [][NextConc]_vars

(***************************************************************************)
(* C5: get and put on one store are guarded by mutual exclusion that       *)
(* serializes structural mutation: no two operations that modify the       *)
(* recency list of the same store (the promotion of a get that hit, or a   *)
(* put) are inside their critical sections at the same time.               *)
(***************************************************************************)
\* The thread is in the critical section of an operation that modifies the
\* recency list: a put, or a get that found its key.
Mutating(t) ==
    /\ pc[t] \in {"put_body", "get_splice", "get_return"}
    /\ Holds(t, call[t].node)

C5_MutationSerialized ==
    \A t, u \in Threads :
        (t # u /\ call[t].node = call[u].node) => ~(Mutating(t) /\ Mutating(u))

(***************************************************************************)
(* C10: with no primary registered, insert and retrieve end in a defined   *)
(* rejection instead of a modulo by zero, and leave the router and the     *)
(* stores unchanged.                                                       *)
(***************************************************************************)
C10_NoPrimaryRejected ==
    [][
        (lastOp'.op \in {"insert", "retrieve"} /\ Len(primaries) = 0) =>
            /\ outcome' = "rejected"
            /\ UNCHANGED <<storeVars, routerVars>>
    ]_vars

(***************************************************************************)
(* C11: disablePrimary(i) with i below the number of shards sets the alive *)
(* flag of shard i's primary to false and changes no other flag, no store  *)
(* and nothing of the topology; with i out of range it returns without an  *)
(* error and changes no flag and no store.                                 *)
(***************************************************************************)
C11_DisablePrimaryFrame ==
    [][
        lastOp'.op = "disablePrimary" =>
            LET i == lastOp'.idx
            IN  /\ outcome' = "returned"
                /\ UNCHANGED <<storeVars, primaries, replicas, hasher>>
                /\ IF i < Len(primaries)
                   THEN /\ Len(primaryStatus') = Len(primaryStatus)
                        /\ ~At(primaryStatus', i)
                        /\ \A j \in 0..(Len(primaryStatus) - 1) :
                                j # i => At(primaryStatus', j) = At(primaryStatus, j)
                   ELSE primaryStatus' = primaryStatus
    ]_vars

\* An out-of-range disablePrimary returned in a state where an earlier call
\* had disabled shard 0 only and the stores of both shards hold entries.
C11_Witness ==
    /\ lastOp.op = "disablePrimary"
    /\ lastOp.idx >= Len(primaries)
    /\ outcome = "returned"
    /\ ~At(primaryStatus, 0)
    /\ At(primaryStatus, 1)
    /\ lruList[PrimaryNode(0)] # <<>>
    /\ lruList[PrimaryNode(1)] # <<>>

(***************************************************************************)
(* C12: the alive flag of a shard's primary is true when the primary is    *)
(* registered, and its only transition is from true to false, made by      *)
(* disablePrimary of that shard: a flag that is false is false in every    *)
(* later state, whatever calls follow.                                     *)
(***************************************************************************)
C12_EnabledToDisabledOnly ==
    [][
        /\ Len(primaryStatus') >= Len(primaryStatus)
        /\ lastOp'.op = "registerPrimary" =>
                /\ Len(primaryStatus') = Len(primaryStatus) + 1
                /\ At(primaryStatus', Len(primaryStatus))
        /\ \A i \in 0..(Len(primaryStatus) - 1) :
                /\ ~At(primaryStatus, i) => ~At(primaryStatus', i)
                /\ At(primaryStatus', i) # At(primaryStatus, i) =>
                        lastOp'.op = "disablePrimary" /\ lastOp'.idx = i
    ]_vars

\* An insert into shard 0 returned after the primary of shard 0 had been
\* disabled (the insert wrote to the replicas only); the primary of shard 1,
\* registered as well, is still enabled.
C12_Witness ==
    /\ lastOp.op = "insert"
    /\ outcome = "returned"
    /\ Len(primaryStatus) = NUM_SHARDS
    /\ lastOp.idx = 0
    /\ ~At(primaryStatus, 0)
    /\ At(primaryStatus, 1)
    /\ Len(replicas) > 0
    /\ dispatched = At(replicas, 0)
    /\ dispatched # <<>>

ConcValues == {"Yash", "Suraj"}

\* The thread is inside a call on the ShardManager.
Busy(t) == route[t].op # "none"

\* lines 130 and 131: the shard of the key, and the nodes to write to
RouteInsert(t, key, value) ==
    /\ pc[t] = "idle"
    /\ ~Busy(t)
    /\ route[t].calls < MaxCalls
    /\ Defined(key)
    /\ route' = [route EXCEPT ![t] = [op |-> "insert", key |-> key, value |-> value,
                                      rest |-> InsertTargets(GetShardIndex(key)),
                                      asked |-> 0, calls |-> route[t].calls + 1]]
    /\ UNCHANGED <<storeVars, routerVars, observedVars, historyVars, cacheMutex, pc, call, ret>>

\* lines 138 and 139: the shard of the key, and the nodes to ask
RouteRetrieve(t, key) ==
    /\ pc[t] = "idle"
    /\ ~Busy(t)
    /\ route[t].calls < MaxCalls
    /\ Defined(key)
    /\ route' = [route EXCEPT ![t] = [op |-> "retrieve", key |-> key, value |-> "",
                                      rest |-> RetrieveTargets(GetShardIndex(key)),
                                      asked |-> 0, calls |-> route[t].calls + 1]]
    /\ UNCHANGED <<storeVars, routerVars, observedVars, historyVars, cacheMutex, pc, call, ret>>

\* The answer of the node asked last ends the retrieve (lines 141, 145).
Answered(t) == route[t].op = "retrieve" /\ route[t].asked > 0 /\ ret[t] # MISS

\* lines 131, 133, 140, 144: the call on the next node
RouteNext(t) ==
    /\ pc[t] = "idle"
    /\ Busy(t)
    /\ route[t].rest # <<>>
    /\ ~Answered(t)
    /\ pc' = [pc EXCEPT ![t] = IF route[t].op = "insert" THEN "put_lock" ELSE "get_lock"]
    /\ call' = [call EXCEPT ![t] = [op |-> IF route[t].op = "insert" THEN "put" ELSE "get",
                                    node |-> Head(route[t].rest), key |-> route[t].key,
                                    value |-> route[t].value, moved |-> FALSE]]
    /\ route' = [route EXCEPT ![t].rest = Tail(@), ![t].asked = @ + 1]
    /\ UNCHANGED <<storeVars, routerVars, observedVars, historyVars, cacheMutex, ret>>

\* lines 135, 141, 145, 147: the call on the ShardManager returns
RouteReturn(t) ==
    /\ pc[t] = "idle"
    /\ Busy(t)
    /\ route[t].rest = <<>> \/ Answered(t)
    /\ ret' = [ret EXCEPT ![t] = IF route[t].op = "insert" THEN ""
                                 ELSE IF Answered(t) THEN ret[t] ELSE DB_FALLBACK]
    /\ route' = [route EXCEPT ![t] = [NoRoute EXCEPT !.calls = route[t].calls]]
    /\ UNCHANGED <<storeVars, routerVars, observedVars, historyVars, cacheMutex, pc, call>>

\* The steps of a thread inside the nodes.
NodeStep(t) ==
    \/ GetLock(t)
    \/ GetFind(t)
    \/ GetSplice(t)
    \/ GetReturn(t)
    \/ PutLock(t)
    \/ PutBody(t)

\* The topology of main() with stores of capacity 1, and a hash that puts
\* the keys on the shards in turn, so that two keys share a shard and a
\* third is alone on the other.
InitRouterConc ==
    /\ Init
    /\ capacity = [n \in Nodes |-> 1]
    /\ hasher = [k \in Keys |-> k % NUM_SHARDS]

NextRouterConc ==
    \/ \E t \in Threads, key \in Keys, value \in ConcValues : RouteInsert(t, key, value)
    \/ \E t \in Threads, key \in Keys : RouteRetrieve(t, key)
    \/ \E t \in Threads : RouteNext(t)
    \/ \E t \in Threads : RouteReturn(t)
    \/ \E t \in Threads : NodeStep(t)
    \/ \E idx \in 0..(NUM_SHARDS - 1) : DisablePrimary(idx)

SpecRouterConc == InitRouterConc /\ [][NextRouterConc]_vars

(***************************************************************************)
(* C14: there is no global lock.  Every lock a thread holds or waits for   *)
(* is the lock of a node of the shard of the key of its call, and a thread *)
(* inside a call can take its next step whenever no other thread is inside *)
(* a call on the same shard, whatever locks the threads on other shards    *)
(* hold.                                                                   *)
(***************************************************************************)
ShardNodes(idx) == {At(primaries, idx)} \cup Range(At(replicas, idx))

ShardOf(t) == GetShardIndex(route[t].key)

\* The next step of the call the thread is in.
Step(t) == RouteNext(t) \/ RouteReturn(t) \/ NodeStep(t)

C14_ShardsNeverBlockEachOther ==
    \A t \in Threads :
        /\ \A n \in Nodes : Holds(t, n) => Busy(t) /\ n \in ShardNodes(ShardOf(t))
        /\ pc[t] # "idle" => Busy(t) /\ call[t].node \in ShardNodes(ShardOf(t))
        /\ (Busy(t) /\ \A u \in Threads \ {t} : Busy(u) => ShardOf(u) # ShardOf(t)) =>
                ENABLED Step(t)

\* A thread is about to take the lock of a node of one shard while another
\* thread holds, exclusively, the lock of a node of the other shard.
C14_Witness ==
    \E t, u \in Threads :
        /\ pc[t] = "put_lock"
        /\ pc[u] = "put_body"
        /\ ShardOf(t) # ShardOf(u)
        /\ cacheMutex[call[u].node].writer = u
        /\ ENABLED PutLock(t)

(***************************************************************************)
(* C15: once every insert has returned and no call is in progress, the     *)
(* alive primary and the replicas of a shard that hold a key hold the same *)
(* value for it.                                                           *)
(***************************************************************************)
\* The nodes a retrieve may read agree on the value of every key they hold.
ShardsAgree ==
    \A k \in Keys :
        \A n, m \in Holders(ReadableNodes(GetShardIndex(k)), k) :
            StoredValue(lruList[n], k) = StoredValue(lruList[m], k)

C15_InsertsConverge ==
    (\A t \in Threads : ~Busy(t) /\ pc[t] = "idle") => ShardsAgree

(***************************************************************************)
(* The calls of main(), in its order, on the cache main() builds: stores   *)
(* of capacity CACHE_CAPACITY, the keys "user:1" to "user:5" (numbered 1   *)
(* to 5) hashed to the shards in any way.  The call to make next is told   *)
(* from the last call made.                                                *)
(***************************************************************************)
UserKeys == 1..5

\* The values main() inserts for "user:1" to "user:4".
UserValue == <<"Yash", "Suraj", "Sudhanshu", "Dubey">>

InitMain ==
    /\ capacity = [n \in Nodes |-> CACHE_CAPACITY]
    /\ lruList = [n \in Nodes |-> <<>>]
    /\ cacheMap = [n \in Nodes |-> EmptyMap]
    /\ hasher \in [UserKeys -> 0..(NUM_SHARDS - 1)]
    /\ primaries = MainSetup(NUM_SHARDS).primaries
    /\ replicas = MainSetup(NUM_SHARDS).replicas
    /\ primaryStatus = MainSetup(NUM_SHARDS).primaryStatus
    /\ lastOp = NoOp
    /\ outcome = ""
    /\ result = ""
    /\ evicted = {}
    /\ dispatched = <<>>
    /\ recency = <<>>
    /\ arrival = <<>>
    /\ latest = EmptyMap
    /\ cacheMutex = [n \in Nodes |-> Unlocked]
    /\ pc = [t \in Threads |-> "idle"]
    /\ call = [t \in Threads |-> NoCall]
    /\ ret = [t \in Threads |-> ""]
    /\ route = [t \in Threads |-> NoRoute]

\* lines 194 to 197
MainInserts ==
    \E k \in DOMAIN UserValue :
        /\ IF k = 1 THEN lastOp.op = "none" ELSE lastOp.op = "insert" /\ lastOp.key = k - 1
        /\ Insert(k, UserValue[k])

\* lines 199 to 203
MainRetrieves ==
    \E k \in UserKeys :
        /\ IF k = 1 THEN lastOp.op = "insert" /\ lastOp.key = Len(UserValue)
           ELSE lastOp.op = "retrieve" /\ lastOp.key = k - 1
        /\ \A i \in DOMAIN primaryStatus : primaryStatus[i]
        /\ Retrieve(k)

\* lines 205 and 206
MainDisable ==
    /\ lastOp.op = "retrieve"
    /\ lastOp.key = Len(UserValue) + 1
    /\ DisablePrimary(GetShardIndex(1))

\* line 208
MainLastRetrieve ==
    /\ lastOp.op = "disablePrimary"
    /\ Retrieve(1)

NextMain ==
    \/ MainInserts
    \/ MainRetrieves
    \/ MainDisable
    \/ MainLastRetrieve

SpecMain == InitMain /\ [][NextMain]_vars

(***************************************************************************)
(* C16, as stated: in the run of main(), whatever shards the keys hash to, *)
(* every retrieve of "user:1" to "user:4" returns the value inserted for   *)
(* the key, before and after disablePrimary, and the retrieve of "user:5"  *)
(* returns the shard-wide fallback string.                                 *)
(***************************************************************************)
ScenarioResults ==
    lastOp.op = "retrieve" =>
        IF lastOp.key \in DOMAIN UserValue
        THEN result = UserValue[lastOp.key]
        ELSE result = DB_FALLBACK

C16_EndToEnd == ScenarioResults

(***************************************************************************)
(* C16, amended: the same, for every assignment of the keys to the shards  *)
(* that gives no shard more of the inserted keys than a store can hold.    *)
(***************************************************************************)
InsertedOn(idx) == {k \in DOMAIN UserValue : hasher[k] % Len(primaries) = idx}

FitsCapacity ==
    \A idx \in 0..(Len(primaries) - 1) : Cardinality(InsertedOn(idx)) <= CACHE_CAPACITY

C16_EndToEndWithinCapacity == FitsCapacity => ScenarioResults

\* The last retrieve of main(): "user:1", on a shard that holds as many
\* keys as a store can hold, is served by the first replica after the
\* primary was disabled.
C16_Witness ==
    /\ FitsCapacity
    /\ lastOp.op = "retrieve"
    /\ lastOp.key = 1
    /\ ~At(primaryStatus, lastOp.idx)
    /\ Cardinality(InsertedOn(lastOp.idx)) = CACHE_CAPACITY
    /\ dispatched = <<At(replicas, lastOp.idx)[1]>>
    /\ result = UserValue[1]

(***************************************************************************)
(* C17: an entry leaves a store only by eviction.  If a node holds a key   *)
(* before a call and not after it, the call is an insert of another key,   *)
(* which the node did not hold, the node is one the insert wrote to, the   *)
(* node was at capacity and the key was at the tail of its list.  No       *)
(* retrieve, no insert of a key the node holds and no disablePrimary       *)
(* removes an entry.                                                       *)
(***************************************************************************)
C17_OnlyEvictionRemoves ==
    [][
        \A n \in Nodes :
            \A k \in ListKeys(lruList[n]) \cup DOMAIN cacheMap[n] :
                (k \notin ListKeys(lruList'[n]) \/ k \notin DOMAIN cacheMap'[n]) =>
                    /\ lastOp'.op \in {"insert", "put"}
                    /\ n \in Range(dispatched')
                    /\ lastOp'.key # k
                    /\ lastOp'.key \notin ListKeys(lruList[n])
                    /\ Len(lruList[n]) >= capacity[n]
                    /\ lruList[n][Len(lruList[n])].first = k
                    /\ ListKeys(lruList'[n]) = (ListKeys(lruList[n]) \ {k}) \cup {lastOp'.key}
    ]_vars

\* After an insert, the full primary of the shard holds the key inserted
\* and has lost a key that the first replica, which received the same
\* inserts, still holds: the primary evicted it.
C17_Witness ==
    /\ lastOp.op = "insert"
    /\ At(primaryStatus, lastOp.idx)
    /\ LET p == At(primaries, lastOp.idx)
           r == At(replicas, lastOp.idx)[1]
       IN  /\ Len(lruList[p]) = capacity[p]
           /\ capacity[p] >= 2
           /\ lruList[p][1].first = lastOp.key
           /\ ListKeys(lruList[r]) \ ListKeys(lruList[p]) # {}

(***************************************************************************)
(* Sequential router calls with two plain values, in a run that records    *)
(* the value last inserted for each key.                                   *)
(***************************************************************************)
NextRecorded ==
    \/ \E key \in Keys, value \in ConcValues : InsertRecorded(key, value)
    \/ \E key \in Keys : Retrieve(key)
    \/ \E idx \in 0..(NUM_SHARDS - 1) : DisablePrimary(idx)

SpecRecorded == Init /\ [][NextRecorded]_vars

(***************************************************************************)
(* C18: no stale read.  With values that are not miss strings, every       *)
(* retrieve(k) returns the shard-wide fallback string or the value of the  *)
(* most recent insert of k, never a value a later insert of k replaced.    *)
(***************************************************************************)
C18_NoStaleRead ==
    lastOp.op = "retrieve" =>
        \/ result = DB_FALLBACK
        \/ lastOp.key \in DOMAIN latest /\ result = latest[lastOp.key]

\* A retrieve returned the value of the last insert of its key while the
\* disabled primary of the shard still holds the value of an earlier one.
C18_Witness ==
    /\ lastOp.op = "retrieve"
    /\ ~At(primaryStatus, lastOp.idx)
    /\ lastOp.key \in ListKeys(lruList[At(primaries, lastOp.idx)])
    /\ lastOp.key \in DOMAIN latest
    /\ result = latest[lastOp.key]
    /\ StoredValue(lruList[At(primaries, lastOp.idx)], lastOp.key) # result

(***************************************************************************)
(* C19, as stated: disabling a primary loses no readable data.  If         *)
(* retrieve(k) would return a value before disablePrimary of k's shard, it *)
(* returns the same value right after it; every key an alive primary holds *)
(* is held by a replica of its shard as well.                              *)
(***************************************************************************)
\* What retrieve(key) would return in the current state.
WouldRetrieve(key) ==
    RetrieveFirst(lruList, cacheMap, RetrieveTargets(GetShardIndex(key)), key, <<>>).ret

\* What retrieve(key) would return after the step.
WouldRetrieveNext(key) ==
    RetrieveFirst(lruList', cacheMap', RetrieveTargets(GetShardIndex(key))', key, <<>>).ret

ReplicaHolds(key) == Holders(Range(At(replicas, GetShardIndex(key))), key) # {}

C19_DisableLosesNothing ==
    [][
        (lastOp'.op = "disablePrimary" /\ lastOp'.idx < Len(primaries)) =>
            \A k \in Keys :
                (GetShardIndex(k) = lastOp'.idx /\ WouldRetrieve(k) # DB_FALLBACK) =>
                    /\ WouldRetrieveNext(k) = WouldRetrieve(k)
                    /\ ReplicaHolds(k)
    ]_vars

(***************************************************************************)
(* C19, amended: if retrieve(k) would return a value before disablePrimary *)
(* of k's shard, then right after it retrieve(k) returns the same value    *)
(* when some replica of the shard holds k, and the shard-wide fallback     *)
(* string when none does.                                                  *)
(***************************************************************************)
C19_DisableKeepsReplicatedData ==
    [][
        (lastOp'.op = "disablePrimary" /\ lastOp'.idx < Len(primaries)) =>
            \A k \in Keys :
                (GetShardIndex(k) = lastOp'.idx /\ WouldRetrieve(k) # DB_FALLBACK) =>
                    IF ReplicaHolds(k)
                    THEN WouldRetrieveNext(k) = WouldRetrieve(k)
                    ELSE WouldRetrieveNext(k) = DB_FALLBACK
    ]_vars

\* A primary was just disabled that holds two keys with plain values: one
\* that a replica holds too, which retrieve still returns, and one that no
\* replica holds any more.
C19_Witness ==
    /\ lastOp.op = "disablePrimary"
    /\ lastOp.idx < Len(primaries)
    /\ ~At(primaryStatus, lastOp.idx)
    /\ \E k, j \in ListKeys(lruList[At(primaries, lastOp.idx)]) :
            /\ ReplicaHolds(k)
            /\ WouldRetrieve(k) = StoredValue(lruList[At(primaries, lastOp.idx)], k)
            /\ WouldRetrieve(k) \in PlainValues
            /\ StoredValue(lruList[At(primaries, lastOp.idx)], j) \in PlainValues
            /\ ~ReplicaHolds(j)
            /\ WouldRetrieve(j) = DB_FALLBACK

(***************************************************************************)
(* The threads of SpecRouterConc under a fair scheduler: a thread whose    *)
(* next step stays possible takes it.                                      *)
(***************************************************************************)
SpecRouterFair == SpecRouterConc /\ \A t \in Threads : WF_vars(Step(t))

(***************************************************************************)
(* C20: a thread inside insert or retrieve holds at most one store lock at *)
(* any moment, and under fair scheduling every call a thread has started   *)
(* returns: no thread waits for a lock forever.                            *)
(***************************************************************************)
LocksHeld(t) == {n \in Nodes : Holds(t, n)}

C20_DeadlockFree ==
    /\ [](\A t \in Threads : Cardinality(LocksHeld(t)) <= 1)
    /\ \A t \in Threads : Busy(t) ~> ~Busy(t)

\* A thread inside insert waits for the lock of a node that another thread,
\* inside a call on the same shard, holds.
C20_Witness ==
    \E t, u \in Threads :
        /\ t # u
        /\ pc[t] = "put_lock"
        /\ Holds(u, call[t].node)
        /\ ~ENABLED PutLock(t)
        /\ Busy(u)

=============================================================================
